---- MODULE Spec2Model ----
(***************************************************************************)
(* Model of zod-time-string (src/lib/index.ts): the duration-string parser *)
(* built on a zod string schema, and the chainable positive / negative /   *)
(* min / max / withErrorMessages builder.                                  *)
(*                                                                         *)
(* Strings are sequences of one-character strings.  A JavaScript number is *)
(* a decimal record [neg, digs, pt] standing for (+/-) 0.digs * 10^pt, the *)
(* digits being the ones Number::toString prints.  The model's inputs are  *)
(* magnitudes on which IEEE-754 double arithmetic is exact, so the decimal *)
(* product is the double product.                                          *)
(***************************************************************************)
EXTENDS Integers, Sequences, FiniteSets, TLC

VARIABLES
    schemas,      \* the validators created so far, in order of creation
    derivation,   \* history: the call that created each validator
    call          \* the parse call in progress, or Idle

vars == <<schemas, derivation, call>>

(***************************************************************************)
(* Bounds of the model.                                                    *)
(***************************************************************************)
\* longest run of whitespace put before, inside and after an input
MaxWs == 2
\* inputs 10^k are tried for k up to MaxZeros
MaxZeros == 21
\* inputs 10^-(k+1) are tried for k up to MaxFracZeros
MaxFracZeros == 6
\* number of validators alive at once in the chaining specification
MaxSchemas == 3
\* longest chain of constraint calls in the chain specification
MaxChain == 2

(***************************************************************************)
(* Characters.                                                             *)
(***************************************************************************)
DigitChars == <<"0", "1", "2", "3", "4", "5", "6", "7", "8", "9">>

LowerChars ==
    <<"a", "b", "c", "d", "e", "f", "g", "h", "i", "j", "k", "l", "m",
      "n", "o", "p", "q", "r", "s", "t", "u", "v", "w", "x", "y", "z">>

UpperChars ==
    <<"A", "B", "C", "D", "E", "F", "G", "H", "I", "J", "K", "L", "M",
      "N", "O", "P", "Q", "R", "S", "T", "U", "V", "W", "X", "Y", "Z">>

Range(f) == {f[i] : i \in DOMAIN f}

DigitSet == Range(DigitChars)

LowerSet == Range(LowerChars)

UpperSet == Range(UpperChars)

\* \d
IsDigit(c) == c \in DigitSet

\* [a-zA-Z]
IsLetter(c) == c \in LowerSet \cup UpperSet

\* \s, and the characters String.prototype.trim strips
IsSpace(c) == c \in {" ", "\t"}

DigitValue(c) == (CHOOSE i \in 1..10 : DigitChars[i] = c) - 1

\* String.prototype.toLowerCase on one character
toLowerCase(c) ==
    IF c \in UpperSet
    THEN LowerChars[CHOOSE i \in 1..26 : UpperChars[i] = c]
    ELSE c

toUpperCase(c) ==
    IF c \in LowerSet
    THEN UpperChars[CHOOSE i \in 1..26 : LowerChars[i] = c]
    ELSE c

LowerStr(s) == [i \in 1..Len(s) |-> toLowerCase(s[i])]

UpperStr(s) == [i \in 1..Len(s) |-> toUpperCase(s[i])]

\* s[i..j-1] holds only whitespace, only digits, only letters
AllSpace(s, i, j) == \A p \in i..(j - 1) : IsSpace(s[p])

AllDigits(s, i, j) == \A p \in i..(j - 1) : IsDigit(s[p])

AllLetters(s, i, j) == \A p \in i..(j - 1) : IsLetter(s[p])

\* the string as it is, whitespace kept
trimNothing(s) == s

\* String.prototype.trim
trim(s) ==
    LET n == Len(s)
        first == IF \E p \in 1..n : ~IsSpace(s[p])
                 THEN CHOOSE p \in 1..n :
                        ~IsSpace(s[p]) /\ AllSpace(s, 1, p)
                 ELSE n + 1
        last == IF first > n THEN n
                ELSE CHOOSE p \in 1..n :
                        ~IsSpace(s[p]) /\ AllSpace(s, p + 1, n + 1)
    IN  SubSeq(s, first, last)

(***************************************************************************)
(* The unit registry.                                                      *)
(***************************************************************************)
TimeUnit == <<"ms", "s", "m", "h", "d", "mo", "y">>

TimeUnits == Range(TimeUnit)

\* each multiplier as the product the source writes
TIME_UNIT_TO_MS ==
    [u \in TimeUnits |->
        CASE u = "ms" -> <<1>>
          [] u = "s"  -> <<1000>>
          [] u = "m"  -> <<60, 1000>>
          [] u = "h"  -> <<60, 60, 1000>>
          [] u = "d"  -> <<24, 60, 60, 1000>>
          [] u = "mo" -> <<30, 24, 60, 60, 1000>>
          [] u = "y"  -> <<365, 24, 60, 60, 1000>>]

\* One alternative of an alias pattern: the literal stem, and the character
\* the trailing "?" makes optional ("" when the alternative has no "?").
Alt(stem, opt) == [stem |-> stem, opt |-> opt]

TIME_UNIT_PATTERNS ==
    [u \in TimeUnits |->
        CASE u = "ms" ->
               <<Alt(<<"m","i","l","l","i","s","e","c","o","n","d">>, "s"),
                 Alt(<<"m","i","l","l","i","s","e","c","o","n">>, "d"),
                 Alt(<<"m","s","e","c">>, "s"),
                 Alt(<<"m","s","e">>, "c"),
                 Alt(<<"m","s">>, "")>>
          [] u = "s" ->
               <<Alt(<<"s","e","c","o","n","d">>, "s"),
                 Alt(<<"s","e","c","o","n">>, "d"),
                 Alt(<<"s","e","c">>, "s"),
                 Alt(<<"s","e">>, "c"),
                 Alt(<<"s">>, "")>>
          [] u = "m" ->
               <<Alt(<<"m","i","n","u","t","e">>, "s"),
                 Alt(<<"m","i","n","u","t">>, "e"),
                 Alt(<<"m","i","n">>, "s"),
                 Alt(<<"m","i">>, "n"),
                 Alt(<<"m">>, "")>>
          [] u = "h" ->
               <<Alt(<<"h","o","u","r">>, "s"),
                 Alt(<<"h","o","u">>, "r"),
                 Alt(<<"h","r">>, "s"),
                 Alt(<<"h">>, "r"),
                 Alt(<<"h">>, "")>>
          [] u = "d" ->
               <<Alt(<<"d","a","y">>, "s"),
                 Alt(<<"d","a">>, "y"),
                 Alt(<<"d">>, "")>>
          [] u = "mo" ->
               <<Alt(<<"m","o","n","t","h">>, "s"),
                 Alt(<<"m","o","n","t">>, "h"),
                 Alt(<<"m","o">>, ""),
                 Alt(<<"m","t","h">>, "")>>
          [] u = "y" ->
               <<Alt(<<"y","e","a","r">>, "s"),
                 Alt(<<"y","e","a">>, "r"),
                 Alt(<<"y","r">>, "s"),
                 Alt(<<"y">>, "r"),
                 Alt(<<"y">>, "")>>]

\* the strings one alternative matches
AltWords(a) ==
    {a.stem} \cup (IF a.opt = "" THEN {} ELSE {Append(a.stem, a.opt)})

\* the strings each unit's pattern matches, letter case apart
PatternWords ==
    [u \in TimeUnits |->
        UNION {AltWords(TIME_UNIT_PATTERNS[u][n]) :
                 n \in 1..Len(TIME_UNIT_PATTERNS[u])}]

\* new RegExp(`^(${pattern})`, 'i').test(w): the pattern with no "$" at its
\* end, which a longer word matches too
MatchesUnanchored(u, w) ==
    \E k \in 1..Len(w) : LowerStr(SubSeq(w, 1, k)) \in PatternWords[u]

\* new RegExp(`^(${pattern})$`, 'i').test(w), for the pattern of unit u
MatchesPattern(u, w) == LowerStr(w) \in PatternWords[u]

\* a value pattern that lets the "." come last: -?(?:\d+)?\.?\d*
valueTrailingDot(s, i, j) ==
    /\ i < j
    /\ LET a == IF s[i] = "-" THEN i + 1 ELSE i
       IN  \E p \in a..(j - 1) :
             /\ AllDigits(s, a, p)
             /\ LET q == IF s[p] = "." THEN p + 1 ELSE p
                IN  q <= j /\ AllDigits(s, q, j)

\* s[i..j-1] is in the language of VALUE_PATTERN: -?(?:\d+)?\.?\d+
VALUE_PATTERN(s, i, j) ==
    /\ i < j
    /\ LET a == IF s[i] = "-" THEN i + 1 ELSE i
       IN  \E p \in a..(j - 1) :
             /\ AllDigits(s, a, p)
             /\ LET q == IF s[p] = "." THEN p + 1 ELSE p
                IN  q < j /\ AllDigits(s, q, j)

\* s[k..l-1] is in the language of UNITS_PATTERN, the alternation of the
\* seven alias patterns
UNITS_PATTERN(s, k, l) ==
    /\ k < l
    /\ \E n \in 1..Len(TimeUnit) :
         MatchesPattern(TimeUnit[n], SubSeq(s, k, l - 1))

NoMatch == [matched |-> FALSE, valueStr |-> <<>>, unit |-> FALSE, unitStr |-> <<>>]


\* FullCutsOptionalValue: the cuts of ^\s*(VALUE)?\s*(UNITS)?\s*$, where the
\* number may be missing.
\* FULL_PATTERN.exec(s): ^\s*(VALUE)\s*(UNITS)?\s*$ with the i flag.  Every
\* way of cutting s into leading space s[1..i-1], the value s[i..j-1], inner
\* space s[j..k-1], the optional unit s[k..l-1] (l = k: the group takes no
\* part) and trailing space; the engine returns the one it meets first, the
\* greedy quantifiers taking the longest piece first.
FullCutsOptionalValue(s) ==
    LET n == Len(s)
        Is == {i \in 1..(n + 1) : AllSpace(s, 1, i)}
        Js(i) == {j \in i..(n + 1) : j = i \/ VALUE_PATTERN(s, i, j)}
        Ks(j) == {k \in j..(n + 1) : AllSpace(s, j, k)}
        Ls(k) == {l \in k..(n + 1) :
                    /\ l = k \/ UNITS_PATTERN(s, k, l)
                    /\ AllSpace(s, l, n + 1)}
    IN  UNION {UNION {UNION {{<<i, j, k, l>> : l \in Ls(k)} : k \in Ks(j)}
                      : j \in Js(i)} : i \in Is}

FullCuts(s) ==
    LET n == Len(s)
        Is == {i \in 1..(n + 1) : AllSpace(s, 1, i)}
        Js(i) == {j \in (i + 1)..(n + 1) : VALUE_PATTERN(s, i, j)}
        Ks(j) == {k \in j..(n + 1) : AllSpace(s, j, k)}
        Ls(k) == {l \in k..(n + 1) :
                    /\ l = k \/ UNITS_PATTERN(s, k, l)
                    /\ AllSpace(s, l, n + 1)}
    IN  UNION {UNION {UNION {{<<i, j, k, l>> : l \in Ls(k)} : k \in Ks(j)}
                      : j \in Js(i)} : i \in Is}

\* c comes before d in the engine's search order
CutBefore(c, d) ==
    \E x \in 1..4 : c[x] > d[x] /\ \A y \in 1..(x - 1) : c[y] = d[y]

FULL_PATTERN(s) ==
    LET cuts == FullCuts(s)
    IN  IF cuts = {} THEN NoMatch
        ELSE LET c == CHOOSE c \in cuts :
                        \A d \in cuts \ {c} : CutBefore(c, d)
             IN  [matched |-> TRUE,
                  valueStr |-> SubSeq(s, c[1], c[2] - 1),
                  unit |-> c[4] > c[3],
                  unitStr |-> SubSeq(s, c[3], c[4] - 1)]

\* /^(-?(?:\d+)?\.?\d+)\s*([a-zA-Z]+)$/.exec(s): the number followed by a word
POSSIBLE_UNIT_PATTERN(s) ==
    LET n == Len(s)
        cuts == {c \in (1..(n + 1)) \X (1..(n + 1)) :
                   /\ VALUE_PATTERN(s, 1, c[1])
                   /\ c[1] <= c[2] /\ c[2] <= n
                   /\ AllSpace(s, c[1], c[2])
                   /\ AllLetters(s, c[2], n + 1)}
    IN  IF cuts = {} THEN NoMatch
        ELSE LET c == CHOOSE c \in cuts :
                        \A d \in cuts : c[1] >= d[1] /\ c[2] >= d[2]
             IN  [matched |-> TRUE,
                  valueStr |-> SubSeq(s, 1, c[1] - 1),
                  unit |-> TRUE,
                  unitStr |-> SubSeq(s, c[2], n)]

NoUnit == "null"

\* a getTimeUnit that compares the token as written, letter case included
getTimeUnitCaseSensitive(unitStr) ==
    LET hits == {n \in 1..Len(TimeUnit) : unitStr \in PatternWords[TimeUnit[n]]}
    IN  IF hits = {} THEN NoUnit
        ELSE TimeUnit[CHOOSE n \in hits : \A m \in hits : n <= m]

\* getTimeUnit: the first unit, in key order, whose pattern matches
getTimeUnit(unitStr) ==
    LET lowerUnit == LowerStr(unitStr)
        hits == {n \in 1..Len(TimeUnit) :
                   MatchesPattern(TimeUnit[n], lowerUnit)}
    IN  IF hits = {} THEN NoUnit
        ELSE TimeUnit[CHOOSE n \in hits : \A m \in hits : n <= m]


(***************************************************************************)
(* JavaScript numbers: parseFloat, *, Number::toString, parseInt.          *)
(***************************************************************************)
\* the decimal (+/-) 0.digs * 10^pt; digs has no leading and no trailing 0
Num(neg, digs, pt) == [neg |-> neg, digs |-> digs, pt |-> pt]

StripLeading(ds) ==
    IF \A i \in 1..Len(ds) : ds[i] = 0 THEN <<>>
    ELSE SubSeq(ds, CHOOSE i \in 1..Len(ds) :
                      ds[i] # 0 /\ \A p \in 1..(i - 1) : ds[p] = 0, Len(ds))

StripTrailing(ds) ==
    IF \A i \in 1..Len(ds) : ds[i] = 0 THEN <<>>
    ELSE SubSeq(ds, 1, CHOOSE i \in 1..Len(ds) :
                      ds[i] # 0 /\ \A p \in (i + 1)..Len(ds) : ds[p] = 0)

\* the decimal digits of a natural number, most significant first
RECURSIVE NatDigits(_)
NatDigits(n) == IF n = 0 THEN <<>> ELSE Append(NatDigits(n \div 10), n % 10)

\* parseFloat on a string VALUE_PATTERN matched
parseFloat(valueStr) ==
    LET neg == valueStr[1] = "-"
        body == IF neg THEN Tail(valueStr) ELSE valueStr
        n == Len(body)
        dot == IF \E p \in 1..n : body[p] = "."
               THEN CHOOSE p \in 1..n : body[p] = "."
               ELSE n + 1
        all == [p \in 1..(n - (IF dot <= n THEN 1 ELSE 0)) |->
                  DigitValue(body[IF p < dot THEN p ELSE p + 1])]
        lead == Len(all) - Len(StripLeading(all))
        digs == StripTrailing(StripLeading(all))
    IN  Num(neg, digs, IF digs = <<>> THEN 0 ELSE (dot - 1) - lead)

\* the digits of (the integer ds) * f + carry, ds read up to position i
RECURSIVE MulCarry(_, _, _, _)
MulCarry(ds, f, i, carry) ==
    IF i = 0 THEN NatDigits(carry)
    ELSE LET v == ds[i] * f + carry
         IN  Append(MulCarry(ds, f, i - 1, v \div 10), v % 10)

\* x * f for a positive integer factor f
MulSmall(x, f) ==
    LET prod == MulCarry(x.digs, f, Len(x.digs), 0)
    IN  Num(x.neg, StripTrailing(prod),
            IF x.digs = <<>> THEN 0 ELSE x.pt + Len(prod) - Len(x.digs))

\* x * f1 * f2 * ... : numValue * TIME_UNIT_TO_MS[unit]
RECURSIVE Times(_, _)
Times(x, factors) ==
    IF factors = <<>> THEN x
    ELSE Times(MulSmall(x, Head(factors)), Tail(factors))

DigitStr(ds) == [i \in 1..Len(ds) |-> DigitChars[ds[i] + 1]]

Zeros(n) == [i \in 1..n |-> "0"]

\* Number::toString: decimal notation for 10^-7 <= |x| < 10^21, exponent
\* notation outside it
toString(x) ==
    LET k == Len(x.digs)
        n == x.pt
        sign == IF x.neg THEN <<"-">> ELSE <<>>
        ds == DigitStr(x.digs)
        e == n - 1
        exp == <<"e", IF e >= 0 THEN "+" ELSE "-">>
                 \o DigitStr(NatDigits(IF e >= 0 THEN e ELSE -e))
    IN  IF k = 0 THEN <<"0">>
        ELSE IF k <= n /\ n <= 21 THEN sign \o ds \o Zeros(n - k)
        ELSE IF 0 < n /\ n <= 21
             THEN sign \o SubSeq(ds, 1, n) \o <<".">> \o SubSeq(ds, n + 1, k)
        ELSE IF -6 < n /\ n <= 0
             THEN sign \o <<"0", ".">> \o Zeros(-n) \o ds
        ELSE IF k = 1 THEN sign \o ds \o exp
        ELSE sign \o <<ds[1], ".">> \o SubSeq(ds, 2, k) \o exp

\* an integer result: NaN, or (+/-) the integer with digits digs
IntNum(nan, neg, digs) == [nan |-> nan, neg |-> neg, digs |-> digs]

\* parseInt(s): optional sign, then the digits up to the first other
\* character
parseInt(s) ==
    LET t == trim(s)
        signed == t # <<>> /\ t[1] \in {"-", "+"}
        body == IF signed THEN Tail(t) ELSE t
        len == IF \E p \in 1..Len(body) : ~IsDigit(body[p])
               THEN (CHOOSE p \in 1..Len(body) :
                       ~IsDigit(body[p]) /\ AllDigits(body, 1, p)) - 1
               ELSE Len(body)
    IN  IF len = 0 THEN IntNum(TRUE, FALSE, <<>>)
        ELSE IntNum(FALSE, signed /\ t[1] = "-",
                    StripLeading([p \in 1..len |-> DigitValue(body[p])]))

\* the sign of val - k, for |k| < 10^9:  -1, 0 or 1
RECURSIVE DigitsNat(_)
DigitsNat(ds) ==
    IF ds = <<>> THEN 0 ELSE 10 * DigitsNat(SubSeq(ds, 1, Len(ds) - 1)) + ds[Len(ds)]

Compare(val, k) ==
    IF Len(val.digs) > 9 THEN (IF val.neg THEN -1 ELSE 1)
    ELSE LET v == IF val.neg THEN -DigitsNat(val.digs) ELSE DigitsNat(val.digs)
         IN  IF v < k THEN -1 ELSE IF v > k THEN 1 ELSE 0


(***************************************************************************)
(* Error specifications and messages.                                      *)
(***************************************************************************)
\* An ErrorSpec: undefined, a string, a function, or an object whose
\* message is a string or a function.  arg is the string, or the name of
\* the function.
ErrorParam(kind, arg) == [kind |-> kind, arg |-> arg]

Undefined == ErrorParam("undefined", "")

\* A message: a literal text, a template literal `text${arg}`, or the result
\* of a caller's function text applied to arg
Message(form, text, arg) == [form |-> form, text |-> text, arg |-> arg]

\* errorOption === undefined: the empty string counts as a message
FalsyUndefinedOnly(errorOption) == errorOption.kind = "undefined"

\* !errorOption
Falsy(errorOption) ==
    \/ errorOption.kind = "undefined"
    \/ errorOption.kind = "string" /\ errorOption.arg = ""

\* a resolver that honors literals only
resolveLiteralOnly(errorOption, defaultMessage, invalidValue) ==
    IF errorOption.kind \in {"string", "objstring"} /\ errorOption.arg # ""
    THEN Message("literal", errorOption.arg, <<>>)
    ELSE defaultMessage

resolveErrorMessage(errorOption, defaultMessage, invalidValue) ==
    IF Falsy(errorOption) THEN defaultMessage
    ELSE IF errorOption.kind = "string"
         THEN Message("literal", errorOption.arg, <<>>)
    ELSE IF errorOption.kind = "function"
         THEN Message("call", errorOption.arg, invalidValue)
    ELSE IF errorOption.kind = "objfunction"
         THEN Message("call", errorOption.arg, invalidValue)
    ELSE Message("literal", errorOption.arg, <<>>)

\* TimeStringOptions; the options left undefined are all-undefined fields
TimeStringOptions(fmt, val, unit) ==
    [invalidFormatError |-> fmt, invalidValueError |-> val,
     invalidUnitError |-> unit]

NoOptions == TimeStringOptions(Undefined, Undefined, Undefined)

(***************************************************************************)
(* The base schema: z.string().check(...).transform(parseInt).             *)
(***************************************************************************)
\* an issue on the payload; cont is its `continue` flag (absent: FALSE)
Issue(code, message, input, cont) ==
    [code |-> code, message |-> message, input |-> input, cont |-> cont]

\* the same issue but with `continue: true`
FormatIssueContinue(message, value) ==
    Issue("invalid_format", message, value, TRUE)

FormatIssue(message, value) == Issue("invalid_format", message, value, FALSE)

\* the payload after the check: v.value and v.issues
Payload(value, issues) == [value |-> value, issues |-> issues]

\* the same branch, but the unit message resolved for the whole value
NoMatchPayloadWhole(options, value, possibleUnitMatch) ==
    IF possibleUnitMatch.matched /\ ~Falsy(options.invalidUnitError)
    THEN Payload(value, <<FormatIssue(
             resolveErrorMessage(options.invalidUnitError,
                 Message("template", "Invalid time unit: ",
                         possibleUnitMatch.unitStr),
                 value), value)>>)
    ELSE Payload(value, <<FormatIssue(
             resolveErrorMessage(options.invalidFormatError,
                 Message("template", "Invalid time format: ", value),
                 value), value)>>)

\* the branch taken when FULL_PATTERN does not match: a unit failure when
\* the input looks like a number and a word and invalidUnitError is set, a
\* format failure otherwise
NoMatchPayload(options, value, possibleUnitMatch) ==
    IF possibleUnitMatch.matched /\ ~Falsy(options.invalidUnitError)
    THEN Payload(value, <<FormatIssue(
             resolveErrorMessage(options.invalidUnitError,
                 Message("template", "Invalid time unit: ",
                         possibleUnitMatch.unitStr),
                 possibleUnitMatch.unitStr), value)>>)
    ELSE Payload(value, <<FormatIssue(
             resolveErrorMessage(options.invalidFormatError,
                 Message("template", "Invalid time format: ", value),
                 value), value)>>)

\* the branch taken with a unit: resolve it and multiply
UnitPayload(options, value, numValue, unitStr, unit) ==
    IF unit = NoUnit
    THEN Payload(value, <<FormatIssue(
             resolveErrorMessage(options.invalidUnitError,
                 Message("template", "Invalid time unit: ", unitStr),
                 unitStr), value)>>)
    ELSE Payload(toString(Times(numValue, TIME_UNIT_TO_MS[unit])), <<>>)

\* the branches taken when FULL_PATTERN matches
MatchPayload(options, value, match) ==
    IF match.valueStr = <<>>
    THEN Payload(value, <<FormatIssue(
             resolveErrorMessage(options.invalidValueError,
                 Message("template", "Invalid time value: ", value),
                 value), value)>>)
    ELSE IF ~match.unit \/ match.unitStr = <<>>
    THEN Payload(toString(parseFloat(match.valueStr)), <<>>)
    ELSE UnitPayload(options, value, parseFloat(match.valueStr),
                     match.unitStr, getTimeUnit(match.unitStr))

CheckTrimmed(options, value, match) ==
    IF ~match.matched
    THEN NoMatchPayload(options, value, POSSIBLE_UNIT_PATTERN(value))
    ELSE MatchPayload(options, value, match)

CheckValue(options, value) == CheckTrimmed(options, value, FULL_PATTERN(value))

\* the callback given to .check(): the payload it leaves
TimeStringCheck(options, raw) == CheckValue(options, trim(raw))

\* A validator: the options its check closes over and the refinements
\* chained on it, in order.
Schema(options, checks) == [options |-> options, checks |-> checks]

createBaseTimeStringSchema(options) == Schema(options, <<>>)

baseTimeStringSchema == createBaseTimeStringSchema(NoOptions)

NaN == IntNum(TRUE, FALSE, <<>>)

\* the outcome of the base pipe: the check, then, when it left no issue,
\* the transform
Transform(v) ==
    [issues |-> v.issues,
     value |-> v.value,
     output |-> IF v.issues = <<>> THEN parseInt(v.value) ELSE NaN]

BaseParse(options, raw) == Transform(TimeStringCheck(options, raw))


(***************************************************************************)
(* The chaining builder: refinements on the base schema.                   *)
(***************************************************************************)
\* the predicate given to refine: val op bound
CheckFn(op, bound) == [op |-> op, bound |-> bound]

ApplyCheckFn(checkFn, val) ==
    /\ ~val.nan
    /\ CASE checkFn.op = ">"  -> Compare(val, checkFn.bound) = 1
         [] checkFn.op = "<"  -> Compare(val, checkFn.bound) = -1
         [] checkFn.op = ">=" -> Compare(val, checkFn.bound) >= 0
         [] checkFn.op = "<=" -> Compare(val, checkFn.bound) <= 0

\* one refinement: the predicate, the message of its issue, the function
\* kept under params.customMessageFn ("" when none) and the abort flag
Refinement(checkFn, message, customMessageFn) ==
    [checkFn |-> checkFn, message |-> message,
     customMessageFn |-> customMessageFn, abort |-> FALSE]

\* a schema whose only check is the new refinement
refineReplacing(schema, checkFn, message, customMessageFn) ==
    Schema(schema.options, <<Refinement(checkFn, message, customMessageFn)>>)

\* a refine that builds on the default base schema: the messages given to
\* withErrorMessages are lost
refineDefaultOptions(schema, checkFn, message, customMessageFn) ==
    Schema(NoOptions,
           Append(schema.checks, Refinement(checkFn, message, customMessageFn)))

\* schema.refine(checkFn, {message, params}): a clone of the schema with
\* the refinement appended to its checks
refine(schema, checkFn, message, customMessageFn) ==
    Schema(schema.options,
           Append(schema.checks, Refinement(checkFn, message, customMessageFn)))

\* adds the chainable methods to a schema: they are the actions below
createTimeStringSchema(schema) == schema

\* every refinement given the default message, whatever params is
createRefinementDefault(schema, checkFn, params, defaultMessage) ==
    createTimeStringSchema(refine(schema, checkFn, defaultMessage, ""))

createRefinementWithMessage(schema, checkFn, params, defaultMessage) ==
    IF params.kind = "string"
    THEN createTimeStringSchema(
             refine(schema, checkFn, Message("literal", params.arg, <<>>), ""))
    ELSE IF params.kind = "function"
    THEN createTimeStringSchema(
             refine(schema, checkFn, defaultMessage, params.arg))
    ELSE IF params.kind = "objfunction"
    THEN createTimeStringSchema(
             refine(schema, checkFn, defaultMessage, params.arg))
    ELSE createTimeStringSchema(
             refine(schema, checkFn,
                    IF params.kind = "objstring"
                    THEN Message("literal", params.arg, <<>>)
                    ELSE defaultMessage, ""))

\* `${k}` for an integer k
IntStr(k) ==
    IF k = 0 THEN <<"0">>
    ELSE (IF k < 0 THEN <<"-">> ELSE <<>>)
            \o DigitStr(NatDigits(IF k < 0 THEN -k ELSE k))

\* a refinement val >= 0 in place of val > 0
positiveOrZero(schema, params) ==
    createRefinementWithMessage(schema, CheckFn(">=", 0), params,
        Message("literal", "Value must be positive", <<>>))

positive(schema, params) ==
    createRefinementWithMessage(schema, CheckFn(">", 0), params,
        Message("literal", "Value must be positive", <<>>))

\* negative() with the default message of positive()
negativeSaysPositive(schema, params) ==
    createRefinementWithMessage(schema, CheckFn("<", 0), params,
        Message("literal", "Value must be positive", <<>>))

negative(schema, params) ==
    createRefinementWithMessage(schema, CheckFn("<", 0), params,
        Message("literal", "Value must be negative", <<>>))

\* a refinement val > minValue in place of val >= minValue
minExclusive(schema, minValue, params) ==
    createRefinementWithMessage(schema, CheckFn(">", minValue), params,
        Message("template", "Value must be greater than or equal to ",
                IntStr(minValue)))

min(schema, minValue, params) ==
    createRefinementWithMessage(schema, CheckFn(">=", minValue), params,
        Message("template", "Value must be greater than or equal to ",
                IntStr(minValue)))

max(schema, maxValue, params) ==
    createRefinementWithMessage(schema, CheckFn("<=", maxValue), params,
        Message("template", "Value must be less than or equal to ",
                IntStr(maxValue)))

\* a validator with the new options that keeps the receiver's refinements
withErrorMessagesKeeping(schema, customOptions) ==
    Schema(customOptions, schema.checks)

\* a withErrorMessages that fills what customOptions leaves unset with the
\* receiver's options
withErrorMessagesMerging(schema, customOptions) ==
    createTimeStringSchema(createBaseTimeStringSchema(
        [k \in DOMAIN customOptions |->
            IF customOptions[k].kind = "undefined"
            THEN schema.options[k] ELSE customOptions[k]]))

withErrorMessages(schema, customOptions) ==
    createTimeStringSchema(createBaseTimeStringSchema(customOptions))

timeStringSchema == createTimeStringSchema(baseTimeStringSchema)

\* the payload is aborted: an issue without `continue: true`
Aborted(issues) == \E n \in 1..Len(issues) : ~issues[n].cont

\* `${val}` for an integer result
IntNumStr(val) ==
    IF val.nan THEN <<"N", "a", "N">>
    ELSE IF val.digs = <<>> THEN <<"0">>
    ELSE (IF val.neg THEN <<"-">> ELSE <<>>) \o DigitStr(val.digs)

\* zod runs the checks of the schema in order, skipping a check once the
\* payload is aborted; a failed refinement leaves an issue that continues
\* unless the refinement was given abort
RECURSIVE RunChecks(_, _, _, _, _)
RunChecks(checks, n, val, issues, evaluated) ==
    IF n > Len(checks) THEN [issues |-> issues, evaluated |-> evaluated]
    ELSE IF Aborted(issues)
    THEN RunChecks(checks, n + 1, val, issues, evaluated)
    ELSE RunChecks(checks, n + 1, val,
             IF ApplyCheckFn(checks[n].checkFn, val) THEN issues
             ELSE Append(issues, Issue("custom", checks[n].message,
                                       IntNumStr(val), ~checks[n].abort)),
             Append(evaluated, n))

\* schema.parse(raw): the issues (empty: the call returns output; otherwise
\* it throws them), and the refinements that were evaluated
ParseResult(b, r) ==
    [issues |-> r.issues, value |-> b.value, output |-> b.output,
     evaluated |-> r.evaluated]

\* a parse that runs the first refinement of the schema only
RefinedFirstOnly(schema, b) ==
    ParseResult(b, RunChecks(SubSeq(schema.checks, 1, 1), 1, b.output,
                             b.issues, <<>>))

Refined(schema, b) ==
    ParseResult(b, RunChecks(schema.checks, 1, b.output, b.issues, <<>>))

ParseSchema(schema, raw) == Refined(schema, BaseParse(schema.options, raw))


(***************************************************************************)
(* Inputs of the model.                                                    *)
(***************************************************************************)
Spaces(n) == [i \in 1..n |-> " "]

WsRuns == {Spaces(n) : n \in 0..MaxWs}

Signs == {<<>>, <<"-">>}

\* the aliases the README documents, unit by unit
DocumentedAliases ==
    [u \in TimeUnits |->
        CASE u = "ms" -> {<<"m","s">>, <<"m","s","e","c">>,
                          <<"m","s","e","c","s">>,
                          <<"m","i","l","l","i","s","e","c","o","n","d">>,
                          <<"m","i","l","l","i","s","e","c","o","n","d","s">>}
          [] u = "s"  -> {<<"s">>, <<"s","e","c">>, <<"s","e","c","s">>,
                          <<"s","e","c","o","n","d">>,
                          <<"s","e","c","o","n","d","s">>}
          [] u = "m"  -> {<<"m">>, <<"m","i","n">>, <<"m","i","n","s">>,
                          <<"m","i","n","u","t","e">>,
                          <<"m","i","n","u","t","e","s">>}
          [] u = "h"  -> {<<"h">>, <<"h","r">>, <<"h","r","s">>,
                          <<"h","o","u","r">>, <<"h","o","u","r","s">>}
          [] u = "d"  -> {<<"d">>, <<"d","a","y">>, <<"d","a","y","s">>}
          [] u = "mo" -> {<<"m","o">>, <<"m","t","h">>,
                          <<"m","o","n","t","h">>,
                          <<"m","o","n","t","h","s">>}
          [] u = "y"  -> {<<"y">>, <<"y","r">>, <<"y","r","s">>,
                          <<"y","e","a","r">>, <<"y","e","a","r","s">>}]

AllAliases == UNION {DocumentedAliases[u] : u \in TimeUnits}

\* first letter in upper case
Capitalised(w) == [i \in 1..Len(w) |-> IF i = 1 THEN toUpperCase(w[i]) ELSE w[i]]

AliasSpellings ==
    AllAliases \cup {UpperStr(w) : w \in AllAliases}
               \cup {Capitalised(w) : w \in AllAliases}

\* words that are no documented alias
OtherWords ==
    {<<"z">>, <<"i","n","v","a","l","i","d">>, <<"a","b","c">>, <<"x","s">>,
     <<"m","i","l","l","i","s","e","c","o","n">>, <<"m","s","e">>,
     <<"s","e","c","o","n">>, <<"s","e">>, <<"m","i","n","u","t">>,
     <<"m","i">>, <<"h","o","u">>, <<"d","a">>, <<"m","o","n","t">>,
     <<"y","e","a">>, <<"m","o","s">>, <<"w">>}

\* integer magnitudes of the lexical inputs
SmallNumerals == {<<"3">>, <<"2","5">>, <<"0","0","7">>}

\* number, optional sign, alias or word, with whitespace around each
LexicalInputs ==
    {a \o <<"3">> \o b \o w \o c :
        a \in WsRuns, b \in WsRuns, c \in WsRuns,
        w \in AllAliases \cup OtherWords \cup {<<>>}}
    \cup {sg \o n \o w : sg \in Signs, n \in SmallNumerals,
                         w \in AliasSpellings \cup {<<>>}}
    \cup {<<"\t", "3", "\t", "m", "s", "\t">>, <<"\t", "3", "\t">>,
          <<" ", "\t", "-", "3", "h", " ">>}

\* 10^k
PowerOfTen(k) == <<"1">> \o Zeros(k)

\* 10^-(k+1)
FractionOfTen(k) == <<"0", ".">> \o Zeros(k) \o <<"1">>

\* magnitudes with a fractional part that is a multiple of 1/4
DyadicNumerals ==
    {<<"0">>, <<"0","0","0">>, <<"1",".","5">>, <<".","5">>, <<"0",".","5">>,
     <<"2",".","5">>, <<"1","2",".","7","5">>, <<"0",".","2","5">>}

\* fractional magnitudes that are no multiple of a power of 1/2
DecimalNumerals ==
    {FractionOfTen(k) : k \in 0..MaxFracZeros} \cup {<<"0",".","9">>}

UnitCodes == {<<"m","s">>, <<"s">>, <<"m">>, <<"h">>, <<"d">>, <<"m","o">>, <<"y">>}

NumericInputs ==
    {sg \o n \o u : sg \in Signs, u \in UnitCodes \cup {<<>>},
        n \in {PowerOfTen(k) : k \in 0..MaxZeros} \cup DyadicNumerals}
    \cup {sg \o n \o u : sg \in Signs, n \in DecimalNumerals,
                         u \in {<<>>, <<"m","s">>}}

MalformedInputs ==
    {<<>>, <<" ">>, <<" ", " ">>, <<"a","b","c">>, <<"m","s">>, <<"d">>,
     <<"-">>, <<".">>, <<"-", ".">>, <<"+","5">>, <<"5",".">>,
     <<"1",".","2",".","3">>, <<"-"," ","5">>, <<"1","h","3","0","m">>,
     <<"5"," ","5">>, <<"d","o","n","'","t">>, <<"-","h">>, <<"-","-","1">>,
     <<"1","-">>, <<"5","!">>, <<"1","0","i","n","v","a","l","i","d">>,
     <<"5"," ","z">>, <<"5","z"," ","z">>, <<".","5","q">>}

ParseInputs == LexicalInputs \cup NumericInputs \cup MalformedInputs

\* the base-failure options tried: none, literals, functions, a unit
\* message alone, and empty strings
OptionChoices ==
    {NoOptions,
     TimeStringOptions(ErrorParam("string", "Custom format error"),
                       ErrorParam("string", "Custom value error"),
                       ErrorParam("string", "Custom unit error")),
     TimeStringOptions(ErrorParam("function", "formatErrorFn"),
                       Undefined,
                       ErrorParam("function", "unitErrorFn")),
     TimeStringOptions(Undefined, Undefined,
                       ErrorParam("objfunction", "unitErrorFn")),
     TimeStringOptions(ErrorParam("string", ""), Undefined,
                       ErrorParam("string", ""))}

\* inputs, bounds and messages of the chaining specification
ChainInputs ==
    {<<"0">>, <<"1">>, <<"-","1">>, <<"2">>, <<"-","2">>,
     <<"-","0",".","5">>, <<"1","s">>, <<"a","b","c">>, <<"5","z">>}

\* inputs whose product lies strictly between -1 and 1
FractionInputs ==
    {<<"0",".","5","m","s">>, <<"-","0",".","5","m","s">>, <<"0",".","9">>,
     FractionOfTen(MaxFracZeros)}

ChainBounds == {-1, 1}

ChainParams == {Undefined, ErrorParam("string", "Custom message")}

\* a constraint's message in each of its forms
MessageParams ==
    {Undefined,
     ErrorParam("string", "Custom message"),
     ErrorParam("function", "messageFn"),
     ErrorParam("objstring", "Object message"),
     ErrorParam("objfunction", "objectMessageFn")}

ChainOptions ==
    {NoOptions,
     TimeStringOptions(ErrorParam("string", "Custom format error"),
                       Undefined,
                       ErrorParam("function", "unitErrorFn")),
     TimeStringOptions(Undefined, Undefined,
                       ErrorParam("string", "Custom unit error"))}

(***************************************************************************)
(* The state machine.                                                      *)
(***************************************************************************)
\* no parse call in progress
Idle ==
    [pc |-> "idle", schema |-> 0, input |-> <<>>, issues |-> <<>>,
     value |-> <<>>, output |-> NaN, evaluated |-> <<>>]

\* the call that created a validator: the method, the receiver's index,
\* the bound given (0 when the method takes none) and the message given
Derivation(method, receiver, bound, params) ==
    [method |-> method, receiver |-> receiver, bound |-> bound,
     params |-> params]

Init ==
    /\ schemas = <<timeStringSchema>>
    /\ derivation = <<Derivation("timeStringSchema", 0, 0, Undefined)>>
    /\ call = Idle

\* a chaining call that writes the new validator over its receiver too
DeriveInPlace(i, method, bound, params, schema) ==
    /\ call.pc = "idle"
    /\ Len(schemas) < MaxSchemas
    /\ schemas' = Append([schemas EXCEPT ![i] = schema], schema)
    /\ derivation' = Append(derivation, Derivation(method, i, bound, params))
    /\ UNCHANGED call

\* a chaining call on schemas[i] returns a new validator and leaves the
\* receiver as it was
Derive(i, method, bound, params, schema) ==
    /\ call.pc = "idle"
    /\ Len(schemas) < MaxSchemas
    /\ schemas' = Append(schemas, schema)
    /\ derivation' = Append(derivation, Derivation(method, i, bound, params))
    /\ UNCHANGED call

Positive == \E i \in DOMAIN schemas, p \in ChainParams :
    Derive(i, "positive", 0, p, positive(schemas[i], p))

Negative == \E i \in DOMAIN schemas, p \in ChainParams :
    Derive(i, "negative", 0, p, negative(schemas[i], p))

Min == \E i \in DOMAIN schemas, k \in ChainBounds, p \in ChainParams :
    Derive(i, "min", k, p, min(schemas[i], k, p))

Max == \E i \in DOMAIN schemas, k \in ChainBounds, p \in ChainParams :
    Derive(i, "max", k, p, max(schemas[i], k, p))

WithErrorMessages == \E i \in DOMAIN schemas, o \in ChainOptions :
    Derive(i, "withErrorMessages", 0, o,
           withErrorMessages(schemas[i], o))

\* schemas[i].parse(raw), up to its return or throw
Returned(i, raw, r) ==
    [pc |-> "returned", schema |-> i, input |-> raw, issues |-> r.issues,
     value |-> r.value, output |-> r.output, evaluated |-> r.evaluated]

\* a parse that runs whichever validator was built last: one parser state
\* shared by every validator
ParseCallShared(i, raw) ==
    /\ call.pc = "idle"
    /\ call' = Returned(i, raw, ParseSchema(schemas[Len(schemas)], raw))
    /\ UNCHANGED <<schemas, derivation>>

ParseCall(i, raw) ==
    /\ call.pc = "idle"
    /\ call' = Returned(i, raw, ParseSchema(schemas[i], raw))
    /\ UNCHANGED <<schemas, derivation>>

Parse == \E i \in DOMAIN schemas, raw \in ChainInputs : ParseCall(i, raw)

\* the caller has taken the result
Return ==
    /\ call.pc = "returned"
    /\ call' = Idle
    /\ UNCHANGED <<schemas, derivation>>

Next == Positive \/ Negative \/ Min \/ Max \/ WithErrorMessages \/ Parse \/ Return

Spec == Init /\ [][Next]_vars

\* The base parser alone: a validator with some base-failure options, and
\* parse calls on it over the lexical and numeric inputs.
InitParse ==
    /\ \E o \in OptionChoices :
         schemas = <<createTimeStringSchema(createBaseTimeStringSchema(o))>>
    /\ derivation = <<Derivation("createTimeStringSchema", 0, 0, Undefined)>>
    /\ call = Idle

ParseBase == \E raw \in ParseInputs : ParseCall(1, raw)

NextParse == ParseBase \/ Return

SpecParse == InitParse /\ [][NextParse]_vars

\* The message resolver alone: calls of resolveErrorMessage as the base
\* parser makes them, for an error option of any form, each of the three
\* failures and some offending texts.
ErrorOptions ==
    {Undefined,
     ErrorParam("string", ""),
     ErrorParam("string", "Custom error"),
     ErrorParam("function", "errorFn"),
     ErrorParam("objstring", "Object error"),
     ErrorParam("objstring", ""),
     ErrorParam("objfunction", "objectErrorFn")}

InvalidValues ==
    {<<>>, <<"a","b","c">>, <<"5","z">>, <<"z">>, <<"1","h","3","0","m">>,
     <<"i","n","v","a","l","i","d">>}

\* the default message of each failure: `Invalid time format: ${ value }`,
\* `Invalid time value: ${ value }`, `Invalid time unit: ${ unitStr }`
DefaultMessages(invalidValue) ==
    {Message("template", "Invalid time format: ", invalidValue),
     Message("template", "Invalid time value: ", invalidValue),
     Message("template", "Invalid time unit: ", invalidValue)}

InitResolve ==
    /\ schemas = <<>>
    /\ derivation = <<>>
    /\ call = Idle

Resolved(errorOption, defaultMessage, invalidValue) ==
    [pc |-> "returned", errorOption |-> errorOption,
     defaultMessage |-> defaultMessage, invalidValue |-> invalidValue,
     message |-> resolveErrorMessage(errorOption, defaultMessage, invalidValue)]

Resolve ==
    /\ call.pc = "idle"
    /\ \E errorOption \in ErrorOptions, invalidValue \in InvalidValues :
         \E defaultMessage \in DefaultMessages(invalidValue) :
            call' = Resolved(errorOption, defaultMessage, invalidValue)
    /\ UNCHANGED <<schemas, derivation>>

NextResolve == Resolve \/ Return

SpecMessage == InitResolve /\ [][NextResolve]_vars

\* One chain of constraints: a validator built from the pre-built one by
\* up to MaxChain constraint calls, each with a message of any form, and
\* parse calls on the last validator of the chain.
ChainCalls ==
    [method : {"positive", "negative"}, bound : {0}, params : MessageParams]
        \cup [method : {"min", "max"}, bound : ChainBounds,
              params : MessageParams]

\* the validator a chaining call returns
Called(schema, c) ==
    CASE c.method = "positive" -> positive(schema, c.params)
      [] c.method = "negative" -> negative(schema, c.params)
      [] c.method = "min" -> min(schema, c.bound, c.params)
      [] c.method = "max" -> max(schema, c.bound, c.params)

\* the validator after the first n calls of a chain
RECURSIVE ChainSchema(_, _)
ChainSchema(calls, n) ==
    IF n = 0 THEN timeStringSchema
    ELSE Called(ChainSchema(calls, n - 1), calls[n])

InitChain ==
    /\ \E n \in 1..MaxChain : \E calls \in [1..n -> ChainCalls] :
         /\ schemas = [i \in 1..(n + 1) |-> ChainSchema(calls, i - 1)]
         /\ derivation =
              [i \in 1..(n + 1) |->
                  IF i = 1 THEN Derivation("timeStringSchema", 0, 0, Undefined)
                  ELSE Derivation(calls[i - 1].method, i - 1,
                                  calls[i - 1].bound, calls[i - 1].params)]
    /\ call = Idle

ParseChain == \E raw \in ChainInputs \cup FractionInputs :
    ParseCall(Len(schemas), raw)

NextChain == ParseChain \/ Return

SpecChain == InitChain /\ [][NextChain]_vars


(***************************************************************************)
(* What the claims speak of: the shape of an input read left to right, and *)
(* the arithmetic of the expected results on digit sequences.              *)
(***************************************************************************)
\* the end of the run of spaces, digits, letters that starts at i
RECURSIVE SpaceEnd(_, _)
SpaceEnd(s, i) ==
    IF i <= Len(s) /\ IsSpace(s[i]) THEN SpaceEnd(s, i + 1) ELSE i

RECURSIVE DigitEnd(_, _)
DigitEnd(s, i) ==
    IF i <= Len(s) /\ IsDigit(s[i]) THEN DigitEnd(s, i + 1) ELSE i

RECURSIVE LetterEnd(_, _)
LetterEnd(s, i) ==
    IF i <= Len(s) /\ IsLetter(s[i]) THEN LetterEnd(s, i + 1) ELSE i

\* the position after the last character that is no whitespace
RECURSIVE TextEnd(_, _)
TextEnd(s, i) ==
    IF i >= 1 /\ IsSpace(s[i]) THEN TextEnd(s, i - 1) ELSE i + 1

\* the input without the whitespace around it
Trimmed(s) == SubSeq(s, SpaceEnd(s, 1), TextEnd(s, Len(s)) - 1)

\* An input read as: spaces, an optional "-", integer digits, an optional
\* "." with fraction digits, spaces, a word of letters, spaces.  ok: it is
\* of that form, with a digit after the "." or, without ".", a digit.
Shape(s) ==
    LET n == Len(s)
        p0 == SpaceEnd(s, 1)
        neg == p0 <= n /\ s[p0] = "-"
        p1 == IF neg THEN p0 + 1 ELSE p0
        p2 == DigitEnd(s, p1)
        dot == p2 <= n /\ s[p2] = "."
        p3 == IF dot THEN DigitEnd(s, p2 + 1) ELSE p2
        p4 == SpaceEnd(s, p3)
        p5 == LetterEnd(s, p4)
        p6 == SpaceEnd(s, p5)
    IN  [ok |-> p6 = n + 1 /\ (IF dot THEN p3 > p2 + 1 ELSE p2 > p1),
         neg |-> neg,
         int |-> [i \in 1..(p2 - p1) |-> DigitValue(s[p1 + i - 1])],
         frac |-> IF dot THEN [i \in 1..(p3 - p2 - 1) |-> DigitValue(s[p2 + i])]
                  ELSE <<>>,
         word |-> SubSeq(s, p4, p5 - 1)]

\* the digits of a + b, for digit sequences of one length
RECURSIVE AddCarry(_, _, _, _)
AddCarry(a, b, i, carry) ==
    IF i = 0 THEN (IF carry = 0 THEN <<>> ELSE <<carry>>)
    ELSE LET v == a[i] + b[i] + carry
         IN  Append(AddCarry(a, b, i - 1, v \div 10), v % 10)

PadTo(a, n) == [i \in 1..(n - Len(a)) |-> 0] \o a

BigAdd(a, b) ==
    LET n == IF Len(a) > Len(b) THEN Len(a) ELSE Len(b)
    IN  AddCarry(PadTo(a, n), PadTo(b, n), n, 0)

\* the digits of a * (the first j digits of b), by long multiplication
RECURSIVE BigMul(_, _, _)
BigMul(a, b, j) ==
    IF j = 0 THEN <<>>
    ELSE BigAdd(Append(BigMul(a, b, j - 1), 0),
                MulCarry(a, b[j], Len(a), 0))

\* the multipliers, in milliseconds, digit by digit
UnitMs ==
    [u \in TimeUnits |->
        CASE u = "ms" -> <<1>>
          [] u = "s"  -> <<1, 0, 0, 0>>
          [] u = "m"  -> <<6, 0, 0, 0, 0>>
          [] u = "h"  -> <<3, 6, 0, 0, 0, 0, 0>>
          [] u = "d"  -> <<8, 6, 4, 0, 0, 0, 0, 0>>
          [] u = "mo" -> <<2, 5, 9, 2, 0, 0, 0, 0, 0, 0>>
          [] u = "y"  -> <<3, 1, 5, 3, 6, 0, 0, 0, 0, 0, 0>>]

\* magnitude * multiplier, truncated toward zero: the digits of the product
\* of all the digits of the magnitude, less as many as the fraction has
Truncated(int, frac, ms) ==
    LET prod == BigMul(int \o frac, ms, Len(ms))
    IN  StripLeading(SubSeq(prod, 1, Len(prod) - Len(frac)))

\* the integer result is (+/-) digs; the sign of a zero is not looked at
SameInt(out, neg, digs) ==
    /\ ~out.nan
    /\ out.digs = digs
    /\ digs # <<>> => out.neg = neg

\* the unit a documented alias names, whatever its letter case
AliasOf(word, u) == LowerStr(word) \in DocumentedAliases[u]

\* the options of the validator the call was made on
CallOptions == schemas[call.schema].options

\* no message is given: the spec is absent or the empty string
Absent(spec) ==
    spec.kind = "undefined" \/ (spec.kind = "string" /\ spec.arg = "")

\* the message the policy of the specification gives: absent, the default;
\* a literal, itself; a function, its result on the offending text
SpecResolve(spec, default, offending) ==
    IF Absent(spec) THEN default
    ELSE CASE spec.kind \in {"string", "objstring"} ->
                Message("literal", spec.arg, <<>>)
           [] spec.kind \in {"function", "objfunction"} ->
                Message("call", spec.arg, offending)

FormatMessage(options, raw) ==
    SpecResolve(options.invalidFormatError,
                Message("template", "Invalid time format: ", Trimmed(raw)),
                Trimmed(raw))

UnitMessage(options, word) ==
    SpecResolve(options.invalidUnitError,
                Message("template", "Invalid time unit: ", word), word)

\* the call failed with exactly the one issue of the base parser
FailsWith(message) ==
    /\ Len(call.issues) = 1
    /\ call.issues[1].code = "invalid_format"
    /\ call.issues[1].message = message

(***************************************************************************)
(* C1..C5: the base parser.                                                *)
(***************************************************************************)
\* C1: an integer N followed by a documented alias of a unit, in any letter
\* case and with any whitespace around the number and the alias, parses to
\* N times the multiplier of the unit, negated after a leading "-".
C1_AliasProductOn(sh) ==
    \A u \in TimeUnits :
        sh.ok /\ sh.frac = <<>> /\ AliasOf(sh.word, u)
        => /\ call.issues = <<>>
           /\ SameInt(call.output, sh.neg, Truncated(sh.int, <<>>, UnitMs[u]))

C1_AliasProduct == call.pc = "returned" => C1_AliasProductOn(Shape(call.input))

\* C2: a numeric literal with no unit parses to that number of
\* milliseconds (its integer part).
C2_BareNumberOn(sh) ==
    sh.ok /\ sh.word = <<>>
    => /\ call.issues = <<>>
       /\ SameInt(call.output, sh.neg, StripLeading(sh.int))

C2_BareNumber == call.pc = "returned" => C2_BareNumberOn(Shape(call.input))

\* C3: every accepted input parses to magnitude times multiplier truncated
\* toward zero, whatever the size of the magnitude.
C3_TruncatedOn(sh) ==
    /\ sh.ok /\ sh.word = <<>>
       => SameInt(call.output, sh.neg, Truncated(sh.int, sh.frac, <<1>>))
    /\ \A u \in TimeUnits :
        sh.ok /\ AliasOf(sh.word, u)
        => SameInt(call.output, sh.neg, Truncated(sh.int, sh.frac, UnitMs[u]))

C3_Truncated ==
    call.pc = "returned" /\ call.issues = <<>> => C3_TruncatedOn(Shape(call.input))

\* s is one or more digits followed by one or more letters
NumberWord(s) ==
    /\ DigitEnd(s, 1) > 1
    /\ LetterEnd(s, DigitEnd(s, 1)) > DigitEnd(s, 1)
    /\ LetterEnd(s, DigitEnd(s, 1)) = Len(s) + 1

\* a compound string such as 1h30m: two numbers each with its word
Compound(s) ==
    \E p \in 1..(Len(s) - 1) :
        NumberWord(SubSeq(s, 1, p)) /\ NumberWord(SubSeq(s, p + 1, Len(s)))

NoDigit(s) == \A p \in 1..Len(s) : ~IsDigit(s[p])

\* C4: the empty string, whitespace, input without a digit, a bare sign
\* and a compound string fail with the one issue whose message is resolved
\* from the format ErrorSpec (default "Invalid time format: <trimmed
\* input>"), and return no integer.
C4_FormatFailure ==
    call.pc = "returned" /\ (NoDigit(call.input) \/ Compound(call.input))
    => FailsWith(FormatMessage(CallOptions, call.input))

C4_Witness ==
    /\ call.pc = "returned"
    /\ Compound(call.input)
    /\ CallOptions.invalidUnitError.kind = "function"
    /\ call.issues # <<>>

\* C5: on every validator, an input that fails the combined pattern and is
\* a numeric literal, optional whitespace and a word fails with the
\* message resolved from the unit ErrorSpec (default "Invalid time unit:
\* <word>"); every other input that fails the pattern fails with the
\* format message.
C5_UnitFailureOn(sh) ==
    IF sh.ok /\ sh.word # <<>>
    THEN FailsWith(UnitMessage(CallOptions, sh.word))
    ELSE FailsWith(FormatMessage(CallOptions, call.input))

C5_UnitFailure ==
    call.pc = "returned" /\ ~FULL_PATTERN(trim(call.input)).matched
    => C5_UnitFailureOn(Shape(Trimmed(call.input)))

(***************************************************************************)
(* C6..C10: the chaining builder.                                          *)
(***************************************************************************)
\* C6: no chaining call changes a validator that exists: each keeps its
\* constraint sequence and its messages (parse results are a function of
\* these), and the pre-built base validator keeps zero constraints and the
\* default messages.
C6_ReceiverKept ==
    /\ [](schemas[1].checks = <<>> /\ schemas[1].options = NoOptions)
    /\ [][\A i \in DOMAIN schemas : schemas'[i] = schemas[i]]_vars

\* a = x.min(..), b = a.max(..), and a parse on a returns a value that b's
\* upper bound forbids
C6_Witness ==
    \E a, b \in DOMAIN schemas :
        /\ derivation[a].method = "min"
        /\ derivation[b].method = "max" /\ derivation[b].receiver = a
        /\ call.pc = "returned" /\ call.schema = a /\ call.issues = <<>>
        /\ call.output = IntNum(FALSE, FALSE, <<2>>)
        /\ derivation[b].bound < 2

\* the value of an integer result of few digits
IntValue(out) ==
    IF out.neg THEN -DigitsNat(out.digs) ELSE DigitsNat(out.digs)

\* the call was made on a validator created by one of the methods
DerivedBy(methods) == derivation[call.schema].method \in methods

\* what the receiver of that method call gives on the input of the call
ReceiverResult ==
    ParseSchema(schemas[derivation[call.schema].receiver], call.input)

\* the call rejects exactly when its receiver rejects or excluded holds,
\* and returns the parsed value when it accepts
RejectsExactly(b, excluded) ==
    /\ call.issues # <<>> <=> (ReceiverResult.issues # <<>> \/ excluded)
    /\ call.issues = <<>> => call.output = b.output

\* C7: a validator derived with positive() rejects a parsed value x exactly
\* when x <= 0, one derived with negative() exactly when x >= 0; a value
\* that is accepted is returned unchanged.
C7_SignOn(b) ==
    /\ DerivedBy({"positive"}) /\ b.issues = <<>>
       => RejectsExactly(b, b.output.digs = <<>> \/ b.output.neg)
    /\ DerivedBy({"negative"}) /\ b.issues = <<>>
       => RejectsExactly(b, b.output.digs = <<>> \/ ~b.output.neg)

C7_SignRejection ==
    call.pc = "returned" => C7_SignOn(BaseParse(CallOptions, call.input))

\* zero is rejected by positive() applied to an unconstrained validator
C7_Witness ==
    /\ call.pc = "returned"
    /\ DerivedBy({"positive"})
    /\ schemas[derivation[call.schema].receiver].checks = <<>>
    /\ call.output = IntNum(FALSE, FALSE, <<>>)
    /\ Len(call.issues) = 1

\* C8: a validator derived with min(k) accepts a parsed value x exactly
\* when x >= k, one derived with max(k) exactly when x <= k; x = k is
\* accepted by both, for negative k too.
C8_BoundOn(b, k) ==
    /\ DerivedBy({"min"}) /\ b.issues = <<>>
       => RejectsExactly(b, IntValue(b.output) < k)
    /\ DerivedBy({"max"}) /\ b.issues = <<>>
       => RejectsExactly(b, IntValue(b.output) > k)

C8_BoundInclusive ==
    call.pc = "returned"
    => C8_BoundOn(BaseParse(CallOptions, call.input),
                  derivation[call.schema].bound)

\* x = k = -1 is accepted by min(-1)
C8_Witness ==
    /\ call.pc = "returned"
    /\ DerivedBy({"min"})
    /\ derivation[call.schema].bound = -1
    /\ call.output = IntNum(FALSE, TRUE, <<1>>)
    /\ call.issues = <<>>

\* C9: when the base parse fails, the base failure is the only issue and
\* no chained constraint is evaluated.
C9_BaseOn(b) ==
    b.issues # <<>>
    => /\ Len(b.issues) = 1
       /\ call.issues = b.issues
       /\ call.evaluated = <<>>

C9_BaseFailureStops ==
    call.pc = "returned" => C9_BaseOn(BaseParse(CallOptions, call.input))

\* a base failure on a validator that carries two constraints
C9_Witness ==
    /\ call.pc = "returned"
    /\ Len(schemas[call.schema].checks) = 2
    /\ call.issues # <<>>
    /\ call.issues[1].code = "invalid_format"

\* C10: every failed parse call reports exactly one issue: evaluation
\* stops at the first violated constraint.
C10_OneIssue ==
    call.pc = "returned" /\ call.issues # <<>> => Len(call.issues) = 1

(***************************************************************************)
(* C11..C20: order of the constraints, messages, withErrorMessages, units. *)
(***************************************************************************)
\* the constraint calls that built validator i, in the order they were
\* chained, back to the last validator that carries no constraint
RECURSIVE ChainOf(_)
ChainOf(i) ==
    IF derivation[i].method \in {"positive", "negative", "min", "max"}
    THEN Append(ChainOf(derivation[i].receiver), derivation[i])
    ELSE <<>>

\* the parsed integer x violates the constraint of call c
Violates(x, c) ==
    CASE c.method = "positive" -> IntValue(x) <= 0
      [] c.method = "negative" -> IntValue(x) >= 0
      [] c.method = "min" -> IntValue(x) < c.bound
      [] c.method = "max" -> IntValue(x) > c.bound

\* the lowest index of a violated constraint of the chain, 0 when none
FirstViolated(x, chain) ==
    IF \E n \in DOMAIN chain : Violates(x, chain[n])
    THEN CHOOSE n \in DOMAIN chain :
            /\ Violates(x, chain[n])
            /\ \A m \in 1..(n - 1) : ~Violates(x, chain[m])
    ELSE 0

\* the default message of a constraint
DefaultText(c) ==
    CASE c.method = "positive" ->
           Message("literal", "Value must be positive", <<>>)
      [] c.method = "negative" ->
           Message("literal", "Value must be negative", <<>>)
      [] c.method = "min" ->
           Message("template", "Value must be greater than or equal to ",
                   IntStr(c.bound))
      [] c.method = "max" ->
           Message("template", "Value must be less than or equal to ",
                   IntStr(c.bound))

IsLiteralSpec(params) == params.kind \in {"string", "objstring"}

IsFunctionSpec(params) == params.kind \in {"function", "objfunction"}

\* message is what the policy resolves for the constraint of call c: the
\* default, the literal given, or the result of the function given
ResolvedFor(c, message) ==
    CASE c.params.kind = "undefined" -> message = DefaultText(c)
      [] IsLiteralSpec(c.params) ->
           message = Message("literal", c.params.arg, <<>>)
      [] IsFunctionSpec(c.params) ->
           message.form = "call" /\ message.text = c.params.arg

\* the call parsed its input to an integer that violates a constraint of
\* its validator; n is then the first such constraint
FirstFailure(b, chain) ==
    IF call.pc = "returned" /\ b.issues = <<>>
    THEN FirstViolated(b.output, chain) ELSE 0

\* the first issue of the call is a constraint's issue
FirstIssueCustom == call.issues # <<>> /\ call.issues[1].code = "custom"

\* C11: the first issue reported is that of the lowest-index violated
\* constraint of the chain and carries that constraint's resolved message.
C11_FirstOn(chain, n) ==
    n # 0 => FirstIssueCustom /\ ResolvedFor(chain[n], call.issues[1].message)

C11_ChainOrderOn(b, chain) == C11_FirstOn(chain, FirstFailure(b, chain))

C11_ChainOrder ==
    call.pc = "returned"
    => C11_ChainOrderOn(BaseParse(CallOptions, call.input),
                        ChainOf(call.schema))

\* C12: the message of a base failure is resolved in this order: absent
\* spec, the default text; non-empty literal string, that literal; function,
\* its result on the offending text; object whose message is a function,
\* that function's result on the offending text; object whose message is a
\* literal, that literal.
C12_PolicyOn(spec, message) ==
    /\ spec.kind = "undefined" => message = call.defaultMessage
    /\ spec.kind = "string" /\ spec.arg # ""
       => message = Message("literal", spec.arg, <<>>)
    /\ spec.kind = "function"
       => message = Message("call", spec.arg, call.invalidValue)
    /\ spec.kind = "objfunction"
       => message = Message("call", spec.arg, call.invalidValue)
    /\ spec.kind = "objstring"
       => message = Message("literal", spec.arg, <<>>)

C13_FunctionOn(chain, n) ==
    n # 0 /\ IsFunctionSpec(chain[n].params)
    => FirstIssueCustom /\ ResolvedFor(chain[n], call.issues[1].message)

C13_FunctionMessageOn(b, chain) ==
    C13_FunctionOn(chain, FirstFailure(b, chain))

C13_FunctionMessage ==
    call.pc = "returned"
    => C13_FunctionMessageOn(BaseParse(CallOptions, call.input),
                             ChainOf(call.schema))

\* C14: a message given as a literal string, or as an object whose message
\* is a literal string, is the exact message of the issue of the violated
\* constraint.
C14_LiteralOn(chain, n) ==
    n # 0 /\ IsLiteralSpec(chain[n].params)
    => /\ FirstIssueCustom
       /\ call.issues[1].message = Message("literal", chain[n].params.arg, <<>>)

C14_LiteralMessageOn(b, chain) == C14_LiteralOn(chain, FirstFailure(b, chain))

C14_LiteralMessage ==
    call.pc = "returned"
    => C14_LiteralMessageOn(BaseParse(CallOptions, call.input),
                            ChainOf(call.schema))

\* negative(<literal>) on "1s", and negative({message: <literal>}) after
\* another constraint
C14_Witness ==
    /\ call.pc = "returned"
    /\ call.input = <<"1", "s">>
    /\ derivation[call.schema].method = "negative"
    /\ derivation[call.schema].params.kind = "objstring"
    /\ Len(schemas[call.schema].checks) = 2
    /\ Len(call.issues) = 1
    /\ call.issues[1].message = Message("literal", "Object message", <<>>)

\* C15: withErrorMessages returns a validator with zero constraints, called
\* on any validator: it accepts exactly the inputs the base parser accepts,
\* values the receiver's constraints reject included.
C15_BaseOnlyOn(b) ==
    /\ schemas[call.schema].checks = <<>>
    /\ call.evaluated = <<>>
    /\ call.issues = <<>> <=> b.issues = <<>>
    /\ call.issues = <<>> => call.output = b.output

C15_ConstraintsDropped ==
    call.pc = "returned" /\ DerivedBy({"withErrorMessages"})
    => C15_BaseOnlyOn(BaseParse(NoOptions, call.input))

\* the receiver carries a constraint that rejects the input, and the
\* validator withErrorMessages returned accepts it
C15_Witness ==
    /\ call.pc = "returned"
    /\ DerivedBy({"withErrorMessages"})
    /\ schemas[derivation[call.schema].receiver].checks # <<>>
    /\ ReceiverResult.issues # <<>>
    /\ call.issues = <<>>

\* C16: the unit tokens accepted are exactly the documented aliases in
\* any letter case: a number followed by any other word fails.
C16_DocumentedOn(sh) ==
    sh.ok /\ sh.word # <<>>
    => (call.issues = <<>> <=> \E u \in TimeUnits : AliasOf(sh.word, u))

C16_DocumentedUnitsOnly ==
    call.pc = "returned" => C16_DocumentedOn(Shape(call.input))

\* the message is one the policy resolves for a base failure of the input:
\* the format message, or the unit message for the word after the number
BaseMessage(options, raw, sh, message) ==
    \/ message = FormatMessage(options, raw)
    \/ sh.ok /\ sh.word # <<>> /\ message = UnitMessage(options, sh.word)

\* C17: every issue of a failed base parse carries the code
\* "invalid_format", the resolved message and, as its input, the string
\* exactly as the caller passed it, surrounding whitespace included.
C17_IssueOn(issue) ==
    /\ issue.code = "invalid_format"
    /\ BaseMessage(CallOptions, call.input, Shape(call.input), issue.message)
    /\ issue.input = call.input

C17_IssueCarriesInput ==
    call.pc = "returned"
    => \A n \in DOMAIN call.issues : C17_IssueOn(call.issues[n])

\* C18: a validator built from the base by N constraint calls accepts an
\* input exactly when the base parse succeeds and the parsed integer
\* satisfies all N checks, and then returns the integer the base validator
\* returns for that input.
C18_ComposedOn(b, chain) ==
    /\ call.issues = <<>>
       <=> /\ b.issues = <<>>
           /\ \A n \in DOMAIN chain : ~Violates(b.output, chain[n])
    /\ call.issues = <<>>
       => call.output = ParseSchema(timeStringSchema, call.input).output

C18_Composition ==
    call.pc = "returned"
    => C18_ComposedOn(BaseParse(CallOptions, call.input), ChainOf(call.schema))

\* a chain of two constraints accepts "1s" and returns 1000
C18_Witness ==
    /\ call.pc = "returned"
    /\ Len(ChainOf(call.schema)) = 2
    /\ call.input = <<"1", "s">>
    /\ call.issues = <<>>
    /\ call.output = IntNum(FALSE, FALSE, <<1, 0, 0, 0>>)

\* C19: a function given for the format failure is handed the whole
\* trimmed input; a function given for the unit failure is handed only the
\* word after the number.
C19_OffendingOn(options, sh) ==
    /\ IsFunctionSpec(options.invalidUnitError) /\ sh.ok /\ sh.word # <<>>
       => FailsWith(Message("call", options.invalidUnitError.arg, sh.word))
    /\ IsFunctionSpec(options.invalidFormatError) /\ ~(sh.ok /\ sh.word # <<>>)
       => FailsWith(Message("call", options.invalidFormatError.arg,
                            Trimmed(call.input)))

C19_OffendingText ==
    call.pc = "returned" /\ call.issues # <<>>
    => C19_OffendingOn(CallOptions, Shape(call.input))

\* the unit function is handed "z" for a number followed by z, and the
\* validator has a format function too
C19_Witness ==
    /\ call.pc = "returned"
    /\ IsFunctionSpec(CallOptions.invalidFormatError)
    /\ Shape(call.input).word = <<"z">>
    /\ Len(call.issues) = 1
    /\ call.issues[1].message = Message("call", "unitErrorFn", <<"z">>)

\* C20: with no message given, the violated constraint reports its default
\* message, with the bound in it for min and max.
C20_DefaultOn(chain, n) ==
    n # 0 /\ chain[n].params.kind = "undefined"
    => FirstIssueCustom /\ call.issues[1].message = DefaultText(chain[n])

C20_DefaultMessageOn(b, chain) == C20_DefaultOn(chain, FirstFailure(b, chain))

C20_DefaultMessage ==
    call.pc = "returned"
    => C20_DefaultMessageOn(BaseParse(CallOptions, call.input),
                            ChainOf(call.schema))

\* max(-1) with no message rejects 0 with its default message
C20_Witness ==
    /\ call.pc = "returned"
    /\ call.input = <<"0">>
    /\ derivation[call.schema] = Derivation("max", 1, -1, Undefined)
    /\ Len(call.issues) = 1
    /\ call.issues[1].message =
         Message("template", "Value must be less than or equal to ",
                 <<"-", "1">>)

(***************************************************************************)
(* C21..C30: the grammar of the number, aliases, messages kept or dropped, *)
(* truncation and the order of the constraints.                            *)
(***************************************************************************)
\* C21: the number accepted is an optional single "-", optional integer
\* digits, an optional "." and at least one digit after it: an input is
\* accepted only when it reads that way, and every input that reads that
\* way, alone or before a documented alias, is accepted.
C21_NumericGrammarOn(sh) ==
    /\ call.issues = <<>> => sh.ok
    /\ sh.ok /\ (sh.word = <<>> \/ \E u \in TimeUnits : AliasOf(sh.word, u))
       => call.issues = <<>>

C21_NumericGrammar ==
    call.pc = "returned" => C21_NumericGrammarOn(Shape(call.input))

\* "-.5" is accepted, and parses to 0
C21_Witness ==
    /\ call.pc = "returned"
    /\ call.input = <<"-", ".", "5">>
    /\ call.issues = <<>>
    /\ call.output.digs = <<>>

\* the base-failure options validator i was built with: those of the last
\* withErrorMessages call on its way from the exported validator, none
\* when there was no such call
RECURSIVE OptionsOf(_)
OptionsOf(i) ==
    CASE derivation[i].method = "withErrorMessages" -> derivation[i].params
      [] derivation[i].method \in {"positive", "negative", "min", "max"} ->
           OptionsOf(derivation[i].receiver)
      [] derivation[i].method = "timeStringSchema" -> NoOptions

\* the constraints of the chain that x violates
ViolatedIn(x, chain) == {n \in DOMAIN chain : Violates(x, chain[n])}

\* C22: in every interleaving of parse and chaining calls, the outcome of
\* v.parse(s) is the one s, the base messages v was built with and the
\* constraints chained to build v determine: the base failure of s under
\* those messages, else the failure of the violated constraints of that
\* chain, else the integer; whatever was parsed or derived before.
C22_OutcomeOn(b, chain, n) ==
    /\ b.issues # <<>> => call.issues = b.issues /\ call.output = NaN
    /\ b.issues = <<>> /\ n = 0
       => call.issues = <<>> /\ call.output = b.output
    /\ n # 0
       => /\ FirstIssueCustom
          /\ ResolvedFor(chain[n], call.issues[1].message)
          /\ Len(call.issues) = Cardinality(ViolatedIn(b.output, chain))

C22_DeterminedOn(b, chain) == C22_OutcomeOn(b, chain, FirstFailure(b, chain))

C22_Deterministic ==
    call.pc = "returned"
    => C22_DeterminedOn(BaseParse(OptionsOf(call.schema), call.input),
                        ChainOf(call.schema))

\* the exported validator still parses "-1" to -1 after positive() and
\* withErrorMessages() were called on it
C22_Witness ==
    /\ call.pc = "returned"
    /\ call.schema = 1
    /\ Len(schemas) = 3
    /\ derivation[2].method = "positive" /\ derivation[2].receiver = 1
    /\ derivation[3].method = "withErrorMessages"
    /\ derivation[3].receiver = 1
    /\ call.input = <<"-", "1">>
    /\ call.issues = <<>>
    /\ call.output = IntNum(FALSE, TRUE, <<1>>)

\* the message is the one a value failure reports under the options: the
\* default "Invalid time value: <input>" or the one of invalidValueError
C23_ValueMessage(options, message) ==
    \/ message.form = "template" /\ message.text = "Invalid time value: "
    \/ /\ options.invalidValueError.kind # "undefined"
       /\ message.text = options.invalidValueError.arg

\* C23: no input fails with a value failure: no issue of any call carries
\* the message resolved from invalidValueError or its default.
C23_NoValueFailure ==
    call.pc = "returned"
    => \A n \in DOMAIN call.issues :
          ~C23_ValueMessage(CallOptions, call.issues[n].message)

\* with invalidValueError given, a unit without a number fails, and with
\* the format message
C23_Witness ==
    /\ call.pc = "returned"
    /\ CallOptions.invalidValueError =
         ErrorParam("string", "Custom value error")
    /\ call.input = <<"m", "s">>
    /\ FailsWith(Message("literal", "Custom format error", <<>>))

\* the units whose alias pattern the word matches
C24_UnitsMatching(word) ==
    {n \in 1..Len(TimeUnit) : MatchesPattern(TimeUnit[n], word)}

\* C24: every unit word of an accepted input matches the alias pattern of
\* exactly one of the seven units, so the unit found does not depend on the
\* order in which the units are tried.
C24_UnambiguousOn(word) ==
    call.issues = <<>> /\ word # <<>>
    => /\ Cardinality(C24_UnitsMatching(word)) = 1
       /\ \A n \in C24_UnitsMatching(word) : getTimeUnit(word) = TimeUnit[n]

C24_Unambiguous ==
    call.pc = "returned" => C24_UnambiguousOn(Shape(call.input).word)

\* "3mo" is accepted as three months
C24_Witness ==
    /\ call.pc = "returned"
    /\ call.input = <<"3", "m", "o">>
    /\ call.issues = <<>>
    /\ C24_UnitsMatching(<<"m", "o">>) = {6}
    /\ call.output = IntNum(FALSE, FALSE, <<7, 7, 7, 6, 0, 0, 0, 0, 0, 0>>)

\* the validator the constraint chain of validator i starts from
RECURSIVE RootOf(_)
RootOf(i) ==
    IF derivation[i].method \in {"positive", "negative", "min", "max"}
    THEN RootOf(derivation[i].receiver)
    ELSE i

\* the input fails in the base parser: it does not read as a number and a
\* word, or the word names no unit
BaseFails(sh) == ~sh.ok \/ (sh.word # <<>> /\ getTimeUnit(sh.word) = NoUnit)

\* the message of a base failure under the options: the unit message for a
\* number and a word when invalidUnitError is given, else the format
\* message
ExpectedBaseMessage(options, raw, sh) ==
    IF sh.ok /\ sh.word # <<>> /\ ~Absent(options.invalidUnitError)
    THEN UnitMessage(options, sh.word)
    ELSE FormatMessage(options, raw)

\* C25: a validator built by constraints chained after
\* withErrorMessages(o) reports a base failure with the messages of o.
C25_KeptOn(root, sh) ==
    /\ ChainOf(call.schema) # <<>>
    /\ derivation[root].method = "withErrorMessages"
    /\ BaseFails(sh)
    => FailsWith(ExpectedBaseMessage(derivation[root].params, call.input, sh))

C25_MessagesKept ==
    call.pc = "returned"
    => C25_KeptOn(RootOf(call.schema), Shape(call.input))

\* base.withErrorMessages(o).min(k) fails on "abc" with the format message
\* of o
C25_Witness ==
    /\ call.pc = "returned"
    /\ call.schema = 3
    /\ derivation[2].method = "withErrorMessages"
    /\ derivation[3].method = "min" /\ derivation[3].receiver = 2
    /\ call.input = <<"a", "b", "c">>
    /\ FailsWith(Message("literal", "Custom format error", <<>>))

\* C26: withErrorMessages does not merge: the validator it returns reports
\* a base failure with the messages of the options of that call alone; a
\* category they leave unset reports its default message, whatever the
\* receiver was given.
C26_NotMergedOn(sh) ==
    DerivedBy({"withErrorMessages"}) /\ BaseFails(sh)
    => FailsWith(ExpectedBaseMessage(derivation[call.schema].params,
                                     call.input, sh))

C26_NotMerged == call.pc = "returned" => C26_NotMergedOn(Shape(call.input))

\* after withErrorMessages(o1) with a format message and
\* withErrorMessages(o2) without, a format failure reports the default
C26_Witness ==
    /\ call.pc = "returned"
    /\ call.schema = 3
    /\ derivation[2].method = "withErrorMessages"
    /\ derivation[2].params.invalidFormatError.kind = "string"
    /\ derivation[3].method = "withErrorMessages"
    /\ derivation[3].receiver = 2
    /\ derivation[3].params.invalidFormatError.kind = "undefined"
    /\ derivation[3].params.invalidUnitError.kind = "string"
    /\ call.input = <<"a", "b", "c">>
    /\ FailsWith(Message("template", "Invalid time format: ",
                         <<"a", "b", "c">>))

\* the product of the number and the multiplier of its unit is strictly
\* between -1 and 1
C27_BelowOne(sh) ==
    /\ sh.ok
    /\ \/ sh.word = <<>> /\ StripLeading(sh.int) = <<>>
       \/ \E u \in TimeUnits :
             /\ AliasOf(sh.word, u)
             /\ Truncated(sh.int, sh.frac, UnitMs[u]) = <<>>

\* C27: the constraints are checked against the truncated integer: an input
\* whose product is strictly between -1 and 1 is taken as 0, so it is
\* rejected exactly when 0 violates a constraint of the chain (positive(),
\* negative(), min(1), max(-1)), and parses to 0 when accepted.
C27_AsZeroOn(chain) ==
    /\ call.issues = <<>>
       <=> \A n \in DOMAIN chain : ~Violates(IntNum(FALSE, FALSE, <<>>), chain[n])
    /\ call.issues = <<>> => call.output.digs = <<>>

C27_TruncatedConstraint ==
    call.pc = "returned" /\ C27_BelowOne(Shape(call.input))
    => C27_AsZeroOn(ChainOf(call.schema))

\* some message of the options is the empty string and none is anything
\* else
C28_EmptyOnly(options) ==
    /\ \A k \in DOMAIN options : Absent(options[k])
    /\ \E k \in DOMAIN options : options[k].kind = "string"

\* C28: a base-failure message given as the empty string is treated as
\* absent: every failure reports the default message, and an empty
\* invalidUnitError does not make a number and a word a unit failure: it
\* stays the format failure it is with no options.
C28_EmptyIsAbsent ==
    call.pc = "returned" /\ C28_EmptyOnly(CallOptions) /\ call.issues # <<>>
    => FailsWith(Message("template", "Invalid time format: ",
                         Trimmed(call.input)))

\* "3z" under an empty invalidUnitError fails with the default format
\* message
C28_Witness ==
    /\ call.pc = "returned"
    /\ CallOptions.invalidUnitError = ErrorParam("string", "")
    /\ call.input = <<"3", "z">>
    /\ FailsWith(Message("template", "Invalid time format: ", <<"3", "z">>))

\* what the validator built by the calls of the chain, in that order, on
\* the exported validator gives on the input of the call
RECURSIVE C29_Built(_, _)
C29_Built(chain, n) ==
    IF n = 0 THEN timeStringSchema
    ELSE Called(C29_Built(chain, n - 1), chain[n])

C29_Outcome(chain) == ParseSchema(C29_Built(chain, Len(chain)), call.input)

\* the call accepts exactly when r does, and with the same result
C29_SameAccepted(r) ==
    /\ call.issues = <<>> <=> r.issues = <<>>
    /\ call.issues = <<>> => call.output = r.output

\* C29: the accepted inputs and their results do not depend on the order of
\* the constraints nor on a constraint being chained twice: a chain of two
\* constraints accepts what the same two in the other order accept, and
\* twice the same constraint accepts what the constraint alone accepts.
C29_OrderOn(chain) ==
    /\ Len(chain) = 2 => C29_SameAccepted(C29_Outcome(<<chain[2], chain[1]>>))
    /\ /\ Len(chain) = 2
       /\ chain[1].method = chain[2].method
       /\ chain[1].bound = chain[2].bound
       => C29_SameAccepted(C29_Outcome(<<chain[1]>>))

C29_OrderIndependent ==
    call.pc = "returned" => C29_OrderOn(ChainOf(call.schema))

\* min(-1).max(1) rejects "2" by its second constraint, after its first
\* accepted it
C29_Witness ==
    /\ call.pc = "returned"
    /\ Len(ChainOf(call.schema)) = 2
    /\ derivation[2].method = "min" /\ derivation[2].bound = -1
    /\ derivation[3].method = "max" /\ derivation[3].bound = 1
    /\ call.input = <<"2">>
    /\ call.evaluated = <<1, 2>>
    /\ Len(call.issues) = 1

\* the message is the one a unit failure reports under the options: the
\* default "Invalid time unit: <word>" or the one of invalidUnitError
C30_UnitMessage(options, message) ==
    \/ message.form = "template" /\ message.text = "Invalid time unit: "
    \/ /\ ~Absent(options.invalidUnitError)
       /\ message.text = options.invalidUnitError.arg

\* C30: whenever FULL_PATTERN matches and captures a unit token,
\* getTimeUnit resolves the token to one of the seven units and the input
\* is accepted; a unit failure is reported only for an input FULL_PATTERN
\* does not match, which the secondary pattern reads as a number and a word.
C30_ResolvesOn(value, match) ==
    /\ match.matched /\ match.unit
       => /\ \E n \in 1..Len(TimeUnit) : getTimeUnit(match.unitStr) = TimeUnit[n]
          /\ call.issues = <<>>
    /\ (\E n \in DOMAIN call.issues :
           C30_UnitMessage(CallOptions, call.issues[n].message))
       => ~match.matched /\ POSSIBLE_UNIT_PATTERN(value).matched

C30_UnitResolves ==
    call.pc = "returned"
    => C30_ResolvesOn(Trimmed(call.input), FULL_PATTERN(Trimmed(call.input)))

\* the token "MS" is captured in upper case and resolved to milliseconds
C30_Witness ==
    /\ call.pc = "returned"
    /\ call.input = <<"3", "M", "S">>
    /\ FULL_PATTERN(call.input).unitStr = <<"M", "S">>
    /\ call.issues = <<>>
    /\ call.output = IntNum(FALSE, FALSE, <<3>>)

====
